---- MODULE Spec2Model ----
(***************************************************************************)
(* Model of src/src/lib.rs (module `window`): the `State` struct with its  *)
(* `new`, `render` and `resize` methods, and the closure that `run` hands  *)
(* to the winit event loop.                                                *)
(*                                                                         *)
(* The GPU and the window system are the environment.  What the program    *)
(* does to them is recorded: `state.surface` holds the configuration last  *)
(* applied with Surface::configure, and `calls` holds, in order, the wgpu  *)
(* calls made by the handler invocation that ran last.  The outcome of     *)
(* Surface::get_current_texture is an input of the render step.            *)
(*                                                                         *)
(* Event loop: winit delivers one event at a time to the closure.  Once    *)
(* the closure has called control_flow.set_exit() the loop stops; the only *)
(* event still delivered is LoopDestroyed, which is the last one.          *)
(***************************************************************************)
EXTENDS Integers, Sequences, FiniteSets, TLC

VARIABLES state, control_flow, destroyed, calls, lastEvent, lastResult,
          renderCalls, redrawDelivered, oomSeen

vars == <<state, control_flow, destroyed, calls, lastEvent, lastResult,
          renderCalls, redrawDelivered, oomSeen>>

----------------------------------------------------------------------------
(* Bounds *)

\* window dimensions range over 0..MaxDim
MaxDim == 2
\* at most MaxFrames redraw requests are delivered in a run
MaxFrames == 3
\* the surface reports between 1 and MaxFormats supported formats
MaxFormats == 2

Dims == 0..MaxDim

----------------------------------------------------------------------------
(* Data *)

\* Vertex { position: [f32; 3], color: [f32; 3] }; positions are in halves
\* (-0.5 is written -1, 0.5 is written 1), colours are 0 or 1.
Vertex(p, c) == [position |-> p, color |-> c]

VERTICES ==
    << Vertex(<<-1,  1, 0>>, <<1, 0, 0>>),
       Vertex(<<-1, -1, 0>>, <<0, 1, 0>>),
       Vertex(<< 1, -1, 0>>, <<0, 0, 1>>),
       Vertex(<< 1, -1, 0>>, <<0, 0, 1>>),
       Vertex(<< 1,  1, 0>>, <<1, 1, 0>>),
       Vertex(<<-1,  1, 0>>, <<1, 0, 0>>) >>

\* wgpu::Color::WHITE as (r, g, b, a)
WHITE == <<1, 1, 1, 1>>

PhysicalSize(w, h) == [width |-> w, height |-> h]

\* texture formats a surface may report, and which of them are sRGB
Formats == {"Bgra8Unorm", "Bgra8UnormSrgb", "Rgba8UnormSrgb"}
is_srgb(f) == f \in {"Bgra8UnormSrgb", "Rgba8UnormSrgb"}
AlphaModes == {"Opaque", "PreMultiplied"}

\* Result of Surface::get_current_texture: Ok or one wgpu::SurfaceError
SurfaceErrors == {"Timeout", "Outdated", "Lost", "OutOfMemory"}
SurfaceResults == {"Ok"} \cup SurfaceErrors

\* the window the program created, and any other window id
ThisWindow == "w0"
WindowIds == {ThisWindow, "w1"}

\* one recorded wgpu call: its name and its integer arguments
Call(op, arg) == [op |-> op, arg |-> arg]

\* an event as the closure sees it; unused fields hold their default
Ev(kind, wid, sub, key, kstate, w, h) ==
    [kind |-> kind, window_id |-> wid, sub |-> sub, key |-> key,
     kstate |-> kstate, width |-> w, height |-> h]

NoEvent == Ev("None", "none", "none", "none", "none", 0, 0)

----------------------------------------------------------------------------
(* State::new *)

\* surface_caps.formats.iter().copied().filter(|f| f.is_srgb()).next()
\*     .unwrap_or(surface_caps.formats[0])
RECURSIVE FirstSrgb(_, _)
FirstSrgb(formats, dflt) ==
    IF formats = <<>> THEN dflt
    ELSE IF is_srgb(Head(formats)) THEN Head(formats)
    ELSE FirstSrgb(Tail(formats), dflt)

surface_format(formats) == FirstSrgb(formats, formats[1])

\* the State built from the window's inner size and the surface capabilities
new(size, formats, alpha_modes) ==
    LET config == [format       |-> surface_format(formats),
                   width        |-> size.width,
                   height       |-> size.height,
                   present_mode |-> "Fifo",
                   alpha_mode   |-> alpha_modes[1]]
    IN [window       |-> ThisWindow,
        size         |-> size,
        config       |-> config,
        surface      |-> config,
        num_vertices |-> Len(VERTICES)]

FormatLists == UNION {[1..n -> Formats] : n \in 1..MaxFormats}
AlphaLists == [1..1 -> AlphaModes]

\* the window opens with a nonzero inner size
InitSizes == {PhysicalSize(w, h) : w \in Dims \ {0}, h \in Dims \ {0}}

Init ==
    /\ \E size \in InitSizes, formats \in FormatLists, alpha_modes \in AlphaLists :
          state = new(size, formats, alpha_modes)
    /\ control_flow = "Poll"
    /\ destroyed = FALSE
    /\ calls = << Call("configure", <<state.config.width, state.config.height>>) >>
    /\ lastEvent = NoEvent
    /\ lastResult = "None"
    /\ renderCalls = 0
    /\ redrawDelivered = 0
    /\ oomSeen = FALSE

----------------------------------------------------------------------------
(* State::render and State::resize                                         *)
(* Each returns the State after the call and the wgpu calls it made.       *)

\* render with the draw range cut to the first triangle
render_half_quad(self, acquired) ==
    IF acquired # "Ok"
    THEN [state  |-> self,
          calls  |-> << Call("get_current_texture", <<>>) >>,
          result |-> acquired]
    ELSE [state  |-> self,
          calls  |-> << Call("get_current_texture", <<>>),
                        Call("create_view", <<>>),
                        Call("create_command_encoder", <<>>),
                        Call("begin_render_pass", WHITE),
                        Call("set_pipeline", <<>>),
                        Call("set_vertex_buffer", <<0>>),
                        Call("draw", <<0, 3, 0, 1>>),
                        Call("submit", <<1>>),
                        Call("present", <<>>) >>,
          result |-> "Ok"]

\* fn render(&mut self) -> Result<(), wgpu::SurfaceError>
\* `acquired` is what self.surface.get_current_texture() returns; the `?`
\* returns the error before anything is recorded or submitted.
render(self, acquired) ==
    IF acquired # "Ok"
    THEN [state  |-> self,
          calls  |-> << Call("get_current_texture", <<>>) >>,
          result |-> acquired]
    ELSE [state  |-> self,
          calls  |-> << Call("get_current_texture", <<>>),
                        Call("create_view", <<>>),
                        Call("create_command_encoder", <<>>),
                        Call("begin_render_pass", WHITE),
                        Call("set_pipeline", <<>>),
                        Call("set_vertex_buffer", <<0>>),
                        Call("draw", <<0, self.num_vertices, 0, 1>>),
                        Call("submit", <<1>>),
                        Call("present", <<>>) >>,
          result |-> "Ok"]

\* resize that writes the new width into both dimensions of the config
resize_width_twice(self, new_size) ==
    IF new_size.width = 0 /\ new_size.height = 0
    THEN [state |-> self, calls |-> <<>>]
    ELSE LET config == [self.config EXCEPT !.width  = new_size.width,
                                           !.height = new_size.width]
         IN [state |-> [self EXCEPT !.size    = new_size,
                                    !.config  = config,
                                    !.surface = config],
             calls |-> << Call("configure", <<config.width, config.height>>) >>]

\* resize that forgets to store the new size
resize_size_not_stored(self, new_size) ==
    IF new_size.width = 0 /\ new_size.height = 0
    THEN [state |-> self, calls |-> <<>>]
    ELSE LET config == [self.config EXCEPT !.width  = new_size.width,
                                           !.height = new_size.height]
         IN [state |-> [self EXCEPT !.config  = config,
                                    !.surface = config],
             calls |-> << Call("configure", <<config.width, config.height>>) >>]

\* fn resize(&mut self, new_size: PhysicalSize<u32>)
resize(self, new_size) ==
    IF new_size.width = 0 /\ new_size.height = 0
    THEN [state |-> self, calls |-> <<>>]
    ELSE LET config == [self.config EXCEPT !.width  = new_size.width,
                                           !.height = new_size.height]
         IN [state |-> [self EXCEPT !.size    = new_size,
                                    !.config  = config,
                                    !.surface = config],
             calls |-> << Call("configure", <<config.width, config.height>>) >>]

\* fn input(&mut self, _event: &WindowEvent) -> bool
input(self, event) == FALSE

----------------------------------------------------------------------------
(* The closure passed to event_loop.run                                    *)
(* Each arm returns the State and control flow after the arm, the wgpu     *)
(* calls made, the result of the render call ("None" when render was not   *)
(* called) and the number of render calls.                                 *)

Outcome(self, cf, c, result, renders) ==
    [state |-> self, control_flow |-> cf, calls |-> c,
     result |-> result, renders |-> renders]

\* the arm without the Lost case: Lost is only logged
RedrawRequestedArm_lost_ignored(self, cf, acquired) ==
    LET r == render(self, acquired) IN
    CASE r.result = "Ok" ->
            Outcome(r.state, cf, r.calls, r.result, 1)
      [] r.result = "OutOfMemory" ->
            Outcome(r.state, "Exit", r.calls, r.result, 1)
      [] OTHER ->
            Outcome(r.state, cf, r.calls, r.result, 1)

\* the arm without the OutOfMemory case: OutOfMemory is only logged
RedrawRequestedArm_oom_ignored(self, cf, acquired) ==
    LET r == render(self, acquired) IN
    CASE r.result = "Ok" ->
            Outcome(r.state, cf, r.calls, r.result, 1)
      [] r.result = "Lost" ->
            LET z == resize(r.state, r.state.size)
            IN Outcome(z.state, cf, r.calls \o z.calls, r.result, 1)
      [] OTHER ->
            Outcome(r.state, cf, r.calls, r.result, 1)

\* the arm with Err(Lost | Outdated) => resize
RedrawRequestedArm_outdated_resizes(self, cf, acquired) ==
    LET r == render(self, acquired) IN
    CASE r.result = "Ok" ->
            Outcome(r.state, cf, r.calls, r.result, 1)
      [] r.result \in {"Lost", "Outdated"} ->
            LET z == resize(r.state, r.state.size)
            IN Outcome(z.state, cf, r.calls \o z.calls, r.result, 1)
      [] r.result = "OutOfMemory" ->
            Outcome(r.state, "Exit", r.calls, r.result, 1)
      [] OTHER ->
            Outcome(r.state, cf, r.calls, r.result, 1)

\* Event::RedrawRequested(window_id) if window_id == state.window.id()
RedrawRequestedArm(self, cf, acquired) ==
    LET r == render(self, acquired) IN
    CASE r.result = "Ok" ->
            Outcome(r.state, cf, r.calls, r.result, 1)
      [] r.result = "Lost" ->
            LET z == resize(r.state, r.state.size)
            IN Outcome(z.state, cf, r.calls \o z.calls, r.result, 1)
      [] r.result = "OutOfMemory" ->
            Outcome(r.state, "Exit", r.calls, r.result, 1)
      [] OTHER ->
            Outcome(r.state, cf, r.calls, r.result, 1)

\* the pattern without `state: ElementState::Pressed`
IsCloseOrEscape_any_key_state(event) ==
    \/ event.sub = "CloseRequested"
    \/ /\ event.sub = "KeyboardInput"
       /\ event.key = "Escape"

\* WindowEvent::CloseRequested | WindowEvent::KeyboardInput { input:
\*   KeyboardInput { virtual_keycode: Some(Escape), state: Pressed, .. }, .. }
IsCloseOrEscape(event) ==
    \/ event.sub = "CloseRequested"
    \/ /\ event.sub = "KeyboardInput"
       /\ event.key = "Escape"
       /\ event.kstate = "Pressed"

\* Event::WindowEvent { window_id, event } if window_id == state.window.id()
WindowEventArm(self, cf, event) ==
    IF input(self, event)
    THEN Outcome(self, cf, <<>>, "None", 0)
    ELSE CASE IsCloseOrEscape(event) ->
                 Outcome(self, "Exit", <<>>, "None", 0)
           [] event.sub = "Resized" ->
                 LET z == resize(self, PhysicalSize(event.width, event.height))
                 IN Outcome(z.state, cf, z.calls, "None", 0)
           [] event.sub = "ScaleFactorChanged" ->
                 LET z == resize(self, PhysicalSize(event.width, event.height))
                 IN Outcome(z.state, cf, z.calls, "None", 0)
           [] OTHER ->
                 Outcome(self, cf, <<>>, "None", 0)

\* the closure without the window_id guard on RedrawRequested
handler_any_window_redraws(self, cf, event, acquired) ==
    CASE event.kind = "RedrawRequested" ->
            RedrawRequestedArm(self, cf, acquired)
      [] event.kind = "MainEventsCleared" ->
            Outcome(self, cf, <<>>, "None", 0)
      [] event.kind = "WindowEvent" /\ event.window_id = self.window ->
            WindowEventArm(self, cf, event)
      [] OTHER ->
            Outcome(self, cf, <<>>, "None", 0)

\* move |event, _, control_flow| match event { ... }
handler(self, cf, event, acquired) ==
    CASE event.kind = "RedrawRequested" /\ event.window_id = self.window ->
            RedrawRequestedArm(self, cf, acquired)
      [] event.kind = "MainEventsCleared" ->
            Outcome(self, cf, <<>>, "None", 0)
      [] event.kind = "WindowEvent" /\ event.window_id = self.window ->
            WindowEventArm(self, cf, event)
      [] OTHER ->
            Outcome(self, cf, <<>>, "None", 0)

----------------------------------------------------------------------------
(* Event delivery                                                          *)

\* the event loop calls the closure with `event`
Deliver(event, acquired) ==
    LET o == handler(state, control_flow, event, acquired) IN
    /\ state' = o.state
    /\ control_flow' = o.control_flow
    /\ calls' = o.calls
    /\ lastEvent' = event
    /\ lastResult' = o.result
    /\ renderCalls' = renderCalls + o.renders
    /\ redrawDelivered' =
          IF event.kind = "RedrawRequested" /\ event.window_id = ThisWindow
          THEN redrawDelivered + 1 ELSE redrawDelivered
    /\ oomSeen' = (oomSeen \/ o.result = "OutOfMemory")
    /\ destroyed' = (event.kind = "LoopDestroyed")

Running == control_flow = "Poll" /\ ~destroyed

RedrawRequested ==
    /\ Running
    /\ redrawDelivered < MaxFrames
    /\ \E wid \in WindowIds, acquired \in SurfaceResults :
          Deliver(Ev("RedrawRequested", wid, "none", "none", "none", 0, 0), acquired)

MainEventsCleared ==
    /\ Running
    /\ Deliver(Ev("MainEventsCleared", "none", "none", "none", "none", 0, 0), "Ok")

CloseRequested ==
    /\ Running
    /\ \E wid \in WindowIds :
          Deliver(Ev("WindowEvent", wid, "CloseRequested", "none", "none", 0, 0), "Ok")

\* virtual_keycode: Some(Escape), Some(another key) or None
KeyCodes == {"Escape", "A", "NoKeyCode"}
ElementStates == {"Pressed", "Released"}

KeyboardInput ==
    /\ Running
    /\ \E wid \in WindowIds, key \in KeyCodes, kstate \in ElementStates :
          Deliver(Ev("WindowEvent", wid, "KeyboardInput", key, kstate, 0, 0), "Ok")

Resized ==
    /\ Running
    /\ \E wid \in WindowIds, w \in Dims, h \in Dims :
          Deliver(Ev("WindowEvent", wid, "Resized", "none", "none", w, h), "Ok")

ScaleFactorChanged ==
    /\ Running
    /\ \E wid \in WindowIds, w \in Dims, h \in Dims :
          Deliver(Ev("WindowEvent", wid, "ScaleFactorChanged", "none", "none", w, h), "Ok")

\* any other WindowEvent variant (Focused, CursorMoved, ...)
OtherWindowEvent ==
    /\ Running
    /\ \E wid \in WindowIds :
          Deliver(Ev("WindowEvent", wid, "Focused", "none", "none", 0, 0), "Ok")

\* any other Event variant (NewEvents, RedrawEventsCleared, ...)
OtherEvent ==
    /\ Running
    /\ Deliver(Ev("RedrawEventsCleared", "none", "none", "none", "none", 0, 0), "Ok")

\* after set_exit the loop delivers LoopDestroyed and stops
LoopDestroyed ==
    /\ control_flow = "Exit"
    /\ ~destroyed
    /\ Deliver(Ev("LoopDestroyed", "none", "none", "none", "none", 0, 0), "Ok")

Next ==
    \/ RedrawRequested
    \/ MainEventsCleared
    \/ CloseRequested
    \/ KeyboardInput
    \/ Resized
    \/ ScaleFactorChanged
    \/ OtherWindowEvent
    \/ OtherEvent
    \/ LoopDestroyed

Spec == Init /\ [][Next]_vars

----------------------------------------------------------------------------
(* Vocabulary of the properties                                            *)

\* the event is a Resized or ScaleFactorChanged for the program's window
IsResizeEvent(e) ==
    /\ e.kind = "WindowEvent"
    /\ e.window_id = ThisWindow
    /\ e.sub \in {"Resized", "ScaleFactorChanged"}

\* the event is a RedrawRequested for the program's window
IsOwnRedraw(e) == e.kind = "RedrawRequested" /\ e.window_id = ThisWindow

\* the event is a CloseRequested for the program's window
IsOwnClose(e) ==
    /\ e.kind = "WindowEvent"
    /\ e.window_id = ThisWindow
    /\ e.sub = "CloseRequested"

\* the event is a key-down of Escape for the program's window
IsOwnEscapeDown(e) ==
    /\ e.kind = "WindowEvent"
    /\ e.window_id = ThisWindow
    /\ e.sub = "KeyboardInput"
    /\ e.key = "Escape"
    /\ e.kstate = "Pressed"

\* positions in a call sequence of the calls named op
CallsOf(c, op) == {i \in 1..Len(c) : c[i].op = op}

Dimensions(r) == <<r.width, r.height>>

TypeOK ==
    /\ control_flow \in {"Poll", "Exit"}
    /\ destroyed \in BOOLEAN
    /\ oomSeen \in BOOLEAN
    /\ lastResult \in SurfaceResults \cup {"None"}
    /\ renderCalls \in 0..MaxFrames
    /\ redrawDelivered \in 0..MaxFrames
    /\ state.size.width \in Dims /\ state.size.height \in Dims
    /\ state.config.format \in Formats

----------------------------------------------------------------------------
(* C1 *)

\* C1: a Resized or ScaleFactorChanged event with a zero width or a zero
\* height leaves the stored size, the SurfaceConfig and the surface as they
\* were and makes no configure call.
C1_ZeroResizeIsNoOp ==
    [][ (IsResizeEvent(lastEvent') /\ (lastEvent'.width = 0 \/ lastEvent'.height = 0))
          => (state' = state /\ CallsOf(calls', "configure") = {}) ]_vars

(* C2 *)

\* C2: every configuration applied to the surface has width > 0 and
\* height > 0: the one the surface holds, and every configure call made.
C2_AppliedConfigPositive ==
    /\ state.surface.width > 0
    /\ state.surface.height > 0
    /\ \A i \in CallsOf(calls, "configure") :
          calls[i].arg[1] > 0 /\ calls[i].arg[2] > 0

(* C3 *)

\* C3: a resize event with w > 0 and h > 0 leaves stored size and
\* SurfaceConfig at exactly (w, h), applies that configuration to the
\* surface with exactly one configure call, and the render that follows
\* it acquires its texture from a surface configured with (w, h) and ends
\* in Ok or one of the surface errors.
C3_ResizeApplies ==
    [][ /\ (IsResizeEvent(lastEvent') /\ lastEvent'.width > 0 /\ lastEvent'.height > 0)
           => /\ Dimensions(state'.size) = <<lastEvent'.width, lastEvent'.height>>
              /\ Dimensions(state'.config) = <<lastEvent'.width, lastEvent'.height>>
              /\ Dimensions(state'.surface) = <<lastEvent'.width, lastEvent'.height>>
              /\ Len(calls') = 1
              /\ calls'[1].op = "configure"
              /\ calls'[1].arg = <<lastEvent'.width, lastEvent'.height>>
        /\ ( /\ IsResizeEvent(lastEvent) /\ lastEvent.width > 0 /\ lastEvent.height > 0
             /\ IsOwnRedraw(lastEvent') )
           => /\ Dimensions(state.surface) = <<lastEvent.width, lastEvent.height>>
              /\ calls'[1].op = "get_current_texture"
              /\ lastResult' \in {"Ok", "Timeout", "Outdated", "Lost", "OutOfMemory"}
      ]_vars

\* a resize to a nonzero size that differs in both dimensions has been applied
C3_Witness ==
    /\ IsResizeEvent(lastEvent)
    /\ lastEvent.width = 2 /\ lastEvent.height = 1
    /\ Dimensions(state.size) = <<2, 1>>
    /\ Len(calls) = 1

(* C4 *)

\* C4: a render that returns Lost is followed at once, in the same
\* handler, by exactly one configure call carrying the stored size; the
\* stored size is unchanged, the loop keeps running, and the next redraw
\* request is rendered as usual.
C4_LostReconfiguresOnce ==
    [][ /\ lastResult' = "Lost"
           => /\ Len(calls') = 2
              /\ calls'[1].op = "get_current_texture"
              /\ calls'[2].op = "configure"
              /\ calls'[2].arg = <<state.size.width, state.size.height>>
              /\ state'.size = state.size
              /\ Dimensions(state'.surface) = Dimensions(state.size)
              /\ control_flow' = "Poll" /\ ~destroyed'
        /\ (lastResult = "Lost" /\ IsOwnRedraw(lastEvent'))
           => /\ renderCalls' = renderCalls + 1
              /\ calls'[1].op = "get_current_texture"
              /\ lastResult' # "None"
      ]_vars

\* a render returned Lost and the reconfigure has been made
C4_Witness ==
    /\ lastResult = "Lost"
    /\ IsOwnRedraw(lastEvent)
    /\ CallsOf(calls, "configure") = {2}
    /\ renderCalls < MaxFrames

(* C5 *)

C6_OneRenderPerRedraw ==
    /\ renderCalls = redrawDelivered
    /\ Cardinality(CallsOf(calls, "get_current_texture")) =
          (IF IsOwnRedraw(lastEvent) THEN 1 ELSE 0)
    /\ (lastResult # "None") <=> IsOwnRedraw(lastEvent)

\* two frames were rendered and an event other than a redraw came after
C6_Witness ==
    /\ renderCalls = 2
    /\ lastEvent.kind = "MainEventsCleared"

(* C7 *)

\* C7: a render that acquired its texture records exactly one render pass,
\* which starts with a clear to (1,1,1,1), and exactly one draw call, made
\* inside that pass, of vertices 0..6 and instances 0..1; the fixed vertex
\* list has 6 entries.  A draw is never recorded without a pass before it.
C7_ClearThenOneDrawOfSix ==
    LET passes == CallsOf(calls, "begin_render_pass")
        draws  == CallsOf(calls, "draw")
    IN /\ Len(VERTICES) = 6
       /\ \A d \in draws : \E b \in passes : b < d
       /\ lastResult = "Ok"
          => /\ Cardinality(passes) = 1
             /\ Cardinality(draws) = 1
             /\ \A b \in passes : calls[b].arg = <<1, 1, 1, 1>>
             /\ \A d \in draws : calls[d].arg = <<0, 6, 0, 1>>

\* a frame was rendered and presented
C7_Witness ==
    /\ lastResult = "Ok"
    /\ CallsOf(calls, "draw") # {}
    /\ CallsOf(calls, "present") # {}

(* C8 *)

\* C8: a handler invocation turns the control flow to Exit exactly when
\* its event, for the program's window, is CloseRequested or a key-down of
\* Escape, or is a redraw request whose render returned OutOfMemory; once
\* Exit, the control flow stays Exit.
C8_ExitIffCloseEscapeOrOom ==
    [][ /\ (control_flow = "Poll" /\ control_flow' = "Exit")
           <=> \/ IsOwnClose(lastEvent')
               \/ IsOwnEscapeDown(lastEvent')
               \/ (IsOwnRedraw(lastEvent') /\ lastResult' = "OutOfMemory")
        /\ control_flow = "Exit" => control_flow' = "Exit"
      ]_vars

\* Escape was pressed and exit was requested
C8_Witness ==
    /\ control_flow = "Exit"
    /\ IsOwnEscapeDown(lastEvent)

(* C9 *)

\* C9: a render whose texture acquisition fails records no render pass and
\* no draw, submits nothing and presents nothing; when the error is
\* Timeout or Outdated the State is unchanged, no configure call is made,
\* the control flow is unchanged and the loop keeps running.
C9_FailedFrameAllOrNothing ==
    [][ lastResult' \in {"Timeout", "Outdated", "Lost", "OutOfMemory"}
          => /\ CallsOf(calls', "begin_render_pass") = {}
             /\ CallsOf(calls', "draw") = {}
             /\ CallsOf(calls', "submit") = {}
             /\ CallsOf(calls', "present") = {}
             /\ lastResult' \in {"Timeout", "Outdated"}
                => /\ state' = state
                   /\ CallsOf(calls', "configure") = {}
                   /\ control_flow' = control_flow
                   /\ control_flow' = "Poll" /\ ~destroyed'
      ]_vars

\* a frame was dropped on an Outdated surface and the loop runs on
C9_Witness ==
    /\ lastResult = "Outdated"
    /\ calls = << Call("get_current_texture", <<>>) >>
    /\ Running

(* C10 *)

\* C10: no handler invocation changes the format, present mode or alpha
\* mode of the SurfaceConfig, the present mode is Fifo, and an invocation
\* for any event but a resize event of the program's window (a redraw
\* request with any render result included) leaves the SurfaceConfig and
\* the stored size unchanged.
C10_OnlyResizeMutatesConfig ==
    [][ /\ state'.config.format = state.config.format
        /\ state'.config.present_mode = state.config.present_mode
        /\ state'.config.present_mode = "Fifo"
        /\ state'.config.alpha_mode = state.config.alpha_mode
        /\ ~IsResizeEvent(lastEvent')
           => (state'.config = state.config /\ state'.size = state.size)
      ]_vars

\* a render returned Lost, its reconfigure ran, and size and SurfaceConfig agree
C10_Witness ==
    /\ lastResult = "Lost"
    /\ Dimensions(state.size) = <<1, 2>>
    /\ Dimensions(state.config) = <<1, 2>>

====
